---- MODULE Spec2Model ----
(***************************************************************************)
(* Model of the dataservice work-queue scheduler (dataservice/worker.py)   *)
(* and of the response cache it drives (dataservice/cache.py).             *)
(*                                                                         *)
(* One DataWorker is modelled per run.  The main loop of fetch() takes one *)
(* item off the work queue, turns it into a batch of asyncio tasks and     *)
(* gathers them; every task is a small state machine whose steps are the   *)
(* stretches of _handle_queue_item / _handle_request_item between two      *)
(* suspension points.                                                      *)
(***************************************************************************)
EXTENDS Naturals, Integers, Sequences, FiniteSets, Bags, TLC

\* ------------------------------------------------------------------ bounds
MaxAttemptsBound == 2      \* retry.max_attempts ranges over 0..MaxAttemptsBound
MaxConcurrencyBound == 2   \* max_concurrency ranges over 1..MaxConcurrencyBound
MaxRuns == 2               \* consecutive runs sharing one cache path
MaxTime == 3               \* the clock of the cache object runs over 0..MaxTime
MaxPathParts == 2          \* dot-separated parts of a cache path
MaxClock == 3              \* the clock of the rate limiter runs over 0..MaxClock
MaxAssign == 2             \* item assignments made after a DataWrapper is built
MaxWaitSetting == 3        \* wait_exp_mul, wait_exp_min, wait_exp_max in 0..MaxWaitSetting
MaxWaits == 4              \* waits computed for one request
MaxHandled == 3            \* requests handled while the clients are observed
MaxPipelineCalls == 4      \* add_step / add_final_step calls on one pipeline
MaxQueued == 11            \* requests on requests_queue when the worker is called

\* ------------------------------------------------------- requests and items
\* A work item is a record [type, url, params, cb].  For a Request, url and
\* params identify it and cb names its callback; for a data item they name
\* the request whose callback produced it; for a generator cb names the
\* callback whose body is being iterated.
Req(u, p, c) == [type |-> "Request", url |-> u, params |-> p, cb |-> c]
Data(u, p)   == [type |-> "Data", url |-> u, params |-> p, cb |-> "-"]
Gen(u, p, c) == [type |-> "Generator", url |-> u, params |-> p, cb |-> c]
\* A value that is neither a Request, a dict, a BaseModel nor a generator:
\* None, a list, an int.
Other(u, p)  == [type |-> "NoneType", url |-> u, params |-> p, cb |-> "-"]

Urls == {"a", "b", "p"}
Keys == {<<"a", 0>>, <<"b", 0>>, <<"p", 1>>, <<"p", 2>>}

\* Request.unique_key: method, url and params (all modelled requests are GET
\* requests without form or json data).
unique_key(r) == <<r.url, r.params>>

\* The seed sequences a run may be given.
SeedLists ==
  { << >>,
    << Req("a", 0, "parse_item") >>,
    << Req("a", 0, "parse_items") >>,
    << Req("a", 0, "parse_item"), Req("a", 0, "parse_item") >>,
    << Req("a", 0, "gen_raise"), Req("b", 0, "parse_item") >>,
    << Req("a", 0, "parse_raise"), Req("b", 0, "parse_item") >>,
    << Req("a", 0, "parse_request") >>,
    << Req("a", 0, "parse_none"), Req("b", 0, "gen_raise") >>,
    << Req("a", 0, "gen_none") >> }

\* What iterating a generator callback yields, and whether its body raises
\* after the last yield.
GenItems(c) ==
  CASE c = "parse_items" ->
         << Req("p", 1, "parse_item"), Req("p", 1, "parse_item"),
            Req("p", 2, "parse_item") >>
    [] c = "gen_none" -> << Other("a", 0) >>
    [] c = "links_a" ->
         << Data("a", 0), Req("b", 0, "links_b"), Req("a", 0, "links_a") >>
    [] c = "links_b" -> << Req("a", 0, "links_a"), Req("b", 0, "links_b") >>
    [] OTHER -> << Data("a", 0) >>
GenRaises(c) == c = "gen_raise"

\* The value request.callback(response) returns; "raise" when the call itself
\* raises.  Calling a generator function only builds the generator object.
CallbackResult(r) ==
  CASE r.cb = "parse_item"    -> Data(r.url, r.params)
    [] r.cb = "parse_items"   -> Gen(r.url, r.params, r.cb)
    [] r.cb = "gen_raise"     -> Gen(r.url, r.params, r.cb)
    [] r.cb = "gen_none"      -> Gen(r.url, r.params, r.cb)
    [] r.cb = "links_a"       -> Gen(r.url, r.params, r.cb)
    [] r.cb = "links_b"       -> Gen(r.url, r.params, r.cb)
    [] r.cb = "parse_none"    -> Other(r.url, r.params)
    [] r.cb = "parse_request" -> Req("b", 0, "parse_item")
    [] OTHER                  -> [type |-> "raise", url |-> r.url,
                                  params |-> r.params, cb |-> r.cb]

\* isinstance(x, Request); isinstance(x, (dict, BaseModel)).  Request is a
\* pydantic BaseModel, so the second test is true of a Request as well.
IsRequest(x) == x.type = "Request"
IsDictOrBaseModel(x) == x.type \in {"Data", "Request"}
IsGenerator(x) == x.type = "Generator"

\* ---------------------------------------------------------------- variables
VARIABLES
  config,         \* ServiceConfig of the run
  requests,       \* DataWorker._requests (the seeds)
  work_queue,     \* DataWorker._work_queue
  data_queue,     \* DataWorker._data_queue
  failures,       \* DataWorker._failures: url -> exception name ("" = absent)
  seen_requests,  \* DataWorker._seen_requests
  started,        \* DataWorker._started
  semaphore,      \* free slots of the semaphore created in fetch()
  cache,          \* AsyncCache.cache: key -> stored (text, data)
  has_written,    \* AsyncCache.has_written
  disk,           \* snapshot file at cache.path
  tasks,          \* the batch of tasks the main loop is gathering
  pc,             \* position of fetch()
  error,          \* exception that left fetch(), "" if none
  stop_event,     \* the stop signal
  run,            \* number of the current run
  stats,          \* per-key counters of the run (observation only)
  produced,       \* bag of data items callbacks produced (observation only)
  emitted,        \* bag of items the caller drained (observation only)
  history,        \* what earlier runs left behind (observation only)
  unit            \* a component exercised on its own: the cache object, the
                  \* limiter, the configuration validator, the request key

vars == << config, requests, work_queue, data_queue, failures, seen_requests,
           started, semaphore, cache, has_written, disk, tasks, pc, error,
           stop_event, run, stats, produced, emitted, history, unit >>

ZeroStats ==
  [ fetch_calls  |-> [k \in Keys |-> 0],   \* client invocations
    handle_calls |-> [k \in Keys |-> 0],   \* _handle_request invocations
    item_calls   |-> [k \in Keys |-> 0],   \* _handle_request_item invocations
    skipped      |-> [k \in Keys |-> 0],   \* skipped: url already failed
    cache_hits   |-> [k \in Keys |-> 0],   \* cache hits observed
    loads        |-> 0,                    \* cache loads
    flushes      |-> 0,                    \* snapshot writes
    tick_flushes |-> 0,                    \* those made by write_periodically
    signals      |-> 0,                    \* SIGINT/SIGTERM deliveries
    counting     |-> FALSE,                \* after_stop is being counted
    after_stop   |-> 0,                    \* requests first fetched once stopped
    cb_raised    |-> {} ]                  \* urls whose callback raised

Bump(f, k) == [f EXCEPT ![k] = @ + 1]

Configs ==
  [ deduplication   : BOOLEAN,
    cache_use       : BOOLEAN,
    delay           : BOOLEAN,
    max_attempts    : 0..MaxAttemptsBound,
    max_concurrency : 1..MaxConcurrencyBound ]

\* No component is exercised on its own while a worker runs.
NoUnit == [kind |-> "none"]

\* DataWorker.__init__
Init ==
  /\ unit = NoUnit
  /\ config \in Configs
  /\ requests \in SeedLists
  /\ work_queue = << >>
  /\ data_queue = << >>
  /\ failures = [u \in Urls |-> ""]
  /\ seen_requests = {}
  /\ started = FALSE
  /\ semaphore = config.max_concurrency
  /\ cache = << >>
  /\ has_written = FALSE
  /\ disk = << >>
  /\ tasks = << >>
  /\ pc = "start"
  /\ error = ""
  /\ stop_event = FALSE
  /\ run = 1
  /\ stats = ZeroStats
  /\ produced = EmptyBag
  /\ emitted = EmptyBag
  /\ history = << >>

\* ------------------------------------------------------------------- cache
\* The (text, data) pair a successful fetch of request r stores.
ResponseValue(r) == << r.url, r.params >>

\* A load that reads the file and drops the result.
sync_load_dropped(d) == << >>

\* JsonCache.sync_load: the in-memory map becomes the content of the file.
sync_load(d) == d

\* LocalCache.load: only when the path exists; a missing file is modelled by
\* the empty snapshot.
load(c, d) == IF d # << >> THEN sync_load(d) ELSE c

\* CacheFactory.init_cache: a new, empty cache object, then load().
init_cache(d) == load(<< >>, d)

\* A set that stores nothing.
cache_set_dropped(c, k, v) == c

\* AsyncCache.set
cache_set(c, k, v) == [x \in (DOMAIN c) \cup {k} |-> IF x = k THEN v ELSE c[x]]

\* LocalCache.flush: the snapshot is rewritten only after a set.
flush(c, hw, d) == IF ~hw THEN d ELSE c

\* A flush that writes the snapshot whether or not anything was set.
Flushed_always(hw) == IF hw THEN 1 ELSE 1

\* The number of sync_flush calls one flush() makes.
Flushed(hw) == IF hw THEN 1 ELSE 0

\* A lookup that never finds the key.
CacheHit_never(c, r) == unique_key(r) \in {}

\* cache_request.inner: `key in cache`
CacheHit(c, r) == unique_key(r) \in DOMAIN c

\* ---------------------------------------------------------------- worker
\* A key that does not depend on the request.
DedupKey_constant(r) == << "-", 0 * r.params >>

\* key = request.model_dump_json(include=config.deduplication_keys)
DedupKey(r) == << r.url, r.params >>

\* A duplicate check that forgets to record the key.
_is_duplicate_request_no_insert(seen, r) ==
  [dup |-> DedupKey(r) \in seen, seen |-> seen]

\* DataWorker._is_duplicate_request: the answer and the seen set it leaves.
_is_duplicate_request(seen, r) ==
  [dup |-> DedupKey(r) \in seen, seen |-> seen \cup {DedupKey(r)}]

\* DataWorker._has_request_failed
_has_request_failed(f, r) == f[r.url] # ""

\* A failure that is logged and not recorded.
_add_to_failures_dropped(f, r, exc) == [f EXCEPT ![r.url] = f[r.url]]

\* DataWorker._add_to_failures
_add_to_failures(f, r, exc) == [f EXCEPT ![r.url] = exc]

\* The classes an exception is an instance of.  ParsingException and
\* DataServiceException are defined in dataservice/exceptions.py; the
\* retryable, non-retryable and timeout classes the worker and the clients
\* import follow the error taxonomy: Timeout is a Retryable.
Bases(exc) ==
  CASE exc = "TimeoutException" ->
         {"TimeoutException", "RetryableException", "DataServiceException"}
    [] exc = "RetryableException" ->
         {"RetryableException", "DataServiceException"}
    [] exc = "NonRetryableException" ->
         {"NonRetryableException", "DataServiceException"}
    [] exc = "ParsingException" -> {"ParsingException", "DataServiceException"}
    [] exc = "DataServiceException" -> {"DataServiceException"}
    [] OTHER -> {exc}
IsInstance(exc, cls) == cls \in Bases(exc)

\* A retry condition that holds of every exception.
retry_if_any_exception(exc) == IsInstance(exc, exc)

\* retry=retry_if_exception_type(RetryableException)
retry_if_exception_type(exc) == IsInstance(exc, "RetryableException")

\* except (DataServiceException, ParsingException) in _handle_request_item
Caught(exc) ==
  IsInstance(exc, "DataServiceException") \/ IsInstance(exc, "ParsingException")

\* A stop condition that allows one attempt too many.
RetryStop_off_by_one(attempt, max) == attempt > max

\* stop_after_attempt(max_attempts), asked after a failed attempt.
RetryStop(attempt, max) == attempt >= max

\* A task: its item, its position, and what it has done so far: attempts of
\* the retry envelope, client calls, retries, responses obtained, callback
\* invocations and the exception its last attempt or its callback raised.
NewTask(x) ==
  [item |-> x, pc |-> "created", attempts |-> 0, fetches |-> 0, retried |-> 0,
   responses |-> 0, cb_calls |-> 0, exc |-> ""]
Terminal == {"succeeded", "failed", "skipped_dup", "skipped_failed", "queued"}
SetTask(i, newpc, att) ==
  [tasks EXCEPT ![i].pc = newpc, ![i].attempts = att]
\* Attempts that all count as the first client call.
SetFetching_uncounted(i) ==
  [tasks EXCEPT ![i].pc = "fetching", ![i].attempts = @ + 1,
                ![i].fetches = 1, ![i].exc = ""]

\* The attempt that begins calls the client.
SetFetching(i) ==
  [tasks EXCEPT ![i].pc = "fetching", ![i].attempts = @ + 1,
                ![i].fetches = @ + 1, ![i].exc = ""]
\* The attempt that begins is answered from the cache.
SetCached(i) ==
  [tasks EXCEPT ![i].pc = "callback", ![i].attempts = @ + 1,
                ![i].responses = @ + 1, ![i].exc = ""]
\* The client call returned a response.
SetResponse(i) ==
  [tasks EXCEPT ![i].pc = "callback", ![i].responses = @ + 1]
\* An attempt, the callback or the task itself raised exc.
SetRaised(i, newpc, exc) ==
  [tasks EXCEPT ![i].pc = newpc, ![i].exc = exc]
\* The retry envelope sleeps before one more attempt.
SetBackoff(i, exc) ==
  [tasks EXCEPT ![i].pc = "backoff", ![i].retried = @ + 1, ![i].exc = exc]

\* A callback invoked once for every client call of the request.
Invoke_per_attempt(t) == [t EXCEPT !.cb_calls = @ + t.fetches]

\* request.callback(response) runs in the executor.
Invoke(t) == [t EXCEPT !.cb_calls = @ + 1]
InFlight == Cardinality({i \in DOMAIN tasks : tasks[i].pc = "fetching"})

RECURSIVE DataBag(_)
DataBag(s) ==
  IF s = << >> THEN EmptyBag
  ELSE (IF Head(s).type = "Data" THEN SetToBag({Head(s)}) ELSE EmptyBag)
       (+) DataBag(Tail(s))

\* fetch() is left by an exception: the cache context flushes on the way
\* out, the semaphore is released, the tasks of the batch are abandoned.
Raise(exc) ==
  /\ pc' = "crashed"
  /\ error' = exc
  /\ semaphore' = semaphore + 1
  /\ disk' = IF config.cache_use
               THEN flush(cache, has_written, disk) ELSE disk

\* A test that never finds the queue empty.
QueueEmpty_never(q) == q # q

\* self._work_queue.empty()
QueueEmpty(q) == q = << >>

\* DataWorker.fetch, up to the cache context: the semaphore is taken by
\* fetch() itself, the seeds are enqueued.
_enqueue_start_requests ==
  /\ pc = "start"
  /\ semaphore > 0
  /\ IF QueueEmpty(requests)
       THEN /\ pc' = "crashed"
            /\ error' = "ValueError"
            /\ UNCHANGED << semaphore, work_queue, started >>
       ELSE /\ pc' = "enter"
            /\ semaphore' = semaphore - 1
            /\ work_queue' = requests
            /\ started' = TRUE
            /\ error' = error
  /\ UNCHANGED << unit, config, requests, data_queue, failures, seen_requests,
                  cache, has_written, disk, tasks, stop_event, run, stats,
                  produced, emitted, history >>

\* The cache is created and loaded once, before the main loop.
cache_context_enter ==
  /\ pc = "enter"
  /\ pc' = "loop"
  /\ IF config.cache_use
       THEN /\ cache' = init_cache(disk)
            /\ stats' = [stats EXCEPT !.loads = @ + 1]
       ELSE UNCHANGED << cache, stats >>
  /\ UNCHANGED << unit, config, requests, work_queue, data_queue, failures,
                  seen_requests, started, semaphore, has_written, disk, tasks,
                  error, stop_event, run, produced, emitted, history >>

\* A main loop that never looks at the stop signal.
StopIgnored == FALSE

\* The stop signal as the main loop reads it.
StopRequested == stop_event

\* The facade sets the stop signal while the worker runs.
set_stop ==
  /\ pc \in {"enter", "loop", "gather"}
  /\ ~stop_event
  /\ stop_event' = TRUE
  /\ UNCHANGED << unit, config, requests, work_queue, data_queue, failures,
                  seen_requests, started, semaphore, cache, has_written, disk,
                  tasks, pc, error, run, stats, produced, emitted, history >>

\* The stop signal is set and the requests that reach the client from now
\* on are counted.
set_stop_counted ==
  /\ pc \in {"enter", "loop", "gather"}
  /\ ~stop_event
  /\ stop_event' = TRUE
  /\ stats' = [stats EXCEPT !.counting = TRUE]
  /\ UNCHANGED << unit, config, requests, work_queue, data_queue, failures,
                  seen_requests, started, semaphore, cache, has_written, disk,
                  tasks, pc, error, run, produced, emitted, history >>

\* DataWorker._iter_callbacks: the tasks created for one work item and the
\* exception, if any, that ends the iteration.
_iter_callbacks(x) ==
  CASE IsGenerator(x) ->
         [ tasks |-> [i \in 1..Len(GenItems(x.cb)) |-> NewTask(GenItems(x.cb)[i])],
           exc   |-> IF GenRaises(x.cb) THEN "GeneratorError" ELSE "" ]
    [] IsDictOrBaseModel(x) -> [tasks |-> << NewTask(x) >>, exc |-> ""]
    [] OTHER -> [tasks |-> << >>, exc |-> "ValueError"]

\* A test that never sees a job.
has_jobs_never(q) == q # q

\* DataWorker.has_jobs
has_jobs(q) == q # << >>

\* One turn of the main loop of fetch(): leave when stopped or out of jobs,
\* else take one item and create its tasks.
fetch_loop ==
  /\ pc = "loop"
  /\ IF StopRequested \/ ~has_jobs(work_queue)
       THEN /\ pc' = "done"
            /\ semaphore' = semaphore + 1
            /\ disk' = IF config.cache_use
                         THEN flush(cache, has_written, disk) ELSE disk
            /\ stats' = IF config.cache_use
                          THEN [stats EXCEPT !.flushes = @ + Flushed(has_written)]
                          ELSE stats
            /\ UNCHANGED << work_queue, tasks, error, produced >>
       ELSE LET it == _iter_callbacks(Head(work_queue)) IN
            /\ work_queue' = Tail(work_queue)
            /\ tasks' = it.tasks
            /\ produced' = IF IsGenerator(Head(work_queue))
                             THEN produced (+) DataBag(GenItems(Head(work_queue).cb))
                             ELSE produced
            /\ IF it.exc = ""
                 THEN /\ pc' = "gather"
                      /\ UNCHANGED << semaphore, disk, error, stats >>
                 ELSE /\ Raise(it.exc)
                      /\ stats' = [stats EXCEPT
                           !.flushes = @ + (IF config.cache_use THEN Flushed(has_written) ELSE 0),
                           !.cb_raised = IF it.exc = "GeneratorError"
                                           THEN @ \cup {Head(work_queue).url} ELSE @]
  /\ UNCHANGED << unit, config, requests, data_queue, failures, seen_requests,
                  started, cache, has_written, stop_event, run, emitted,
                  history >>

\* DataWorker._make_request behind the retry envelope: one attempt of task i
\* begins.  A hit answers from the cache, a miss calls the client.
BeginAttempt(i, st) ==
  LET r == tasks[i].item
      k == unique_key(r) IN
  IF config.cache_use /\ CacheHit(cache, r)
    THEN /\ tasks' = SetCached(i)
         /\ stats' = [st EXCEPT !.cache_hits = Bump(@, k)]
    ELSE /\ tasks' = SetFetching(i)
         /\ stats' = [st EXCEPT !.fetch_calls = Bump(@, k),
                                !.after_stop =
                                  IF st.counting /\ tasks[i].fetches = 0
                                    THEN @ + 1 ELSE @]

\* DataWorker._handle_queue_item for the task's item, up to its first
\* suspension point: a data item goes to the data queue; a Request runs
\* _handle_request_item through the duplicate and failure checks and into
\* _handle_request; an item of any other type raises ValueError, which
\* leaves the task and, through gather, fetch().
_handle_queue_item(i) ==
  /\ pc = "gather"
  /\ i \in DOMAIN tasks
  /\ tasks[i].pc = "created"
  /\ LET r == tasks[i].item
         d == _is_duplicate_request(seen_requests, r)
         st1 == [stats EXCEPT !.item_calls = Bump(@, unique_key(r))]
         st2 == [st1 EXCEPT !.handle_calls = Bump(@, unique_key(r))] IN
     IF IsRequest(r)
       THEN /\ data_queue' = data_queue
            /\ UNCHANGED << pc, error, semaphore, disk >>
            /\ IF config.deduplication /\ d.dup
                 THEN /\ tasks' = SetTask(i, "skipped_dup", 0)
                      /\ stats' = st1
                      /\ UNCHANGED seen_requests
                 ELSE /\ seen_requests' = IF config.deduplication
                                            THEN d.seen ELSE seen_requests
                      /\ IF _has_request_failed(failures, r)
                           THEN /\ tasks' = SetTask(i, "skipped_failed", 0)
                                /\ stats' = [st1 EXCEPT !.skipped =
                                                Bump(@, unique_key(r))]
                           ELSE IF config.delay
                                  THEN /\ tasks' = SetTask(i, "delay", 0)
                                       /\ stats' = st2
                                  ELSE BeginAttempt(i, st2)
       ELSE IF IsDictOrBaseModel(r)
         THEN /\ data_queue' = Append(data_queue, r)
              /\ tasks' = SetTask(i, "queued", 0)
              /\ UNCHANGED << seen_requests, stats, pc, error, semaphore, disk >>
         ELSE /\ tasks' = SetRaised(i, "raised", "ValueError")
              /\ Raise("ValueError")
              /\ stats' = [stats EXCEPT !.flushes =
                   @ + (IF config.cache_use THEN Flushed(has_written) ELSE 0)]
              /\ UNCHANGED << seen_requests, data_queue >>
  /\ UNCHANGED << unit, config, requests, work_queue, failures, started, cache,
                  has_written, stop_event, run, produced, emitted, history >>

\* The pre-fetch delay, or the back-off sleep of the retry envelope, ends and
\* the next attempt begins.
_make_request(i) ==
  /\ pc = "gather"
  /\ i \in DOMAIN tasks
  /\ tasks[i].pc \in {"delay", "backoff"}
  /\ BeginAttempt(i, stats)
  /\ UNCHANGED << unit, config, requests, work_queue, data_queue, failures,
                  seen_requests, started, semaphore, cache, has_written, disk,
                  pc, error, stop_event, run, produced, emitted, history >>

\* What a client call may end in.  The seeds' URL shows every outcome, the
\* other URLs a response, a retryable error, a generic error and an exception
\* of another library.
FetchOutcomes ==
  {"Response", "RetryableException", "TimeoutException",
   "NonRetryableException", "DataServiceException", "Exception"}
ClientOutcomes(r) ==
  IF r.url = "a" THEN FetchOutcomes
  ELSE {"Response", "RetryableException", "DataServiceException", "Exception"}

\* The client call of task i ends.  A response is stored in the cache and
\* handed to the callback; an exception the retry condition accepts is
\* retried until stop_after_attempt says stop and is then re-raised; any
\* other exception leaves the retry envelope at once.  The except clause of
\* _handle_request_item records DataServiceExceptions in failures; any other
\* exception leaves the task and, through gather, fetch().
client_returns(i, outcome) ==
  /\ pc = "gather"
  /\ i \in DOMAIN tasks
  /\ tasks[i].pc = "fetching"
  /\ outcome \in ClientOutcomes(tasks[i].item)
  /\ LET r == tasks[i].item IN
     IF outcome = "Response"
       THEN /\ tasks' = SetResponse(i)
            /\ IF config.cache_use
                 THEN /\ cache' = cache_set(cache, unique_key(r), ResponseValue(r))
                      /\ has_written' = TRUE
                 ELSE UNCHANGED << cache, has_written >>
            /\ UNCHANGED << failures, pc, error, semaphore, disk, stats >>
       ELSE IF /\ retry_if_exception_type(outcome)
               /\ ~RetryStop(tasks[i].attempts, config.max_attempts)
         THEN /\ tasks' = SetBackoff(i, outcome)
              /\ UNCHANGED << failures, cache, has_written, pc, error,
                              semaphore, disk, stats >>
         ELSE IF Caught(outcome)
           THEN /\ tasks' = SetRaised(i, "failed", outcome)
                /\ failures' = _add_to_failures(failures, r, outcome)
                /\ UNCHANGED << cache, has_written, pc, error, semaphore,
                                disk, stats >>
           ELSE /\ tasks' = SetRaised(i, "raised", outcome)
                /\ Raise(outcome)
                /\ stats' = [stats EXCEPT !.flushes =
                     @ + (IF config.cache_use THEN Flushed(has_written) ELSE 0)]
                /\ UNCHANGED << cache, has_written, failures >>
  /\ UNCHANGED << unit, config, requests, work_queue, data_queue, seen_requests,
                  started, stop_event, run, produced, emitted, history >>

\* DataWorker._handle_callback and the routing of its result in
\* _handle_request_item: a dict or BaseModel goes to the data queue, anything
\* else to the work queue; an exception of the callback becomes a
\* ParsingException recorded in failures.
_handle_callback(i) ==
  /\ pc = "gather"
  /\ i \in DOMAIN tasks
  /\ tasks[i].pc = "callback"
  /\ LET r == tasks[i].item
         res == CallbackResult(r) IN
     IF res.type = "raise"
       THEN /\ failures' = _add_to_failures(failures, r, "ParsingException")
            /\ tasks' = [tasks EXCEPT ![i] =
                           [Invoke(@) EXCEPT !.pc = "failed",
                                             !.exc = "ParsingException"]]
            /\ stats' = [stats EXCEPT !.cb_raised = @ \cup {r.url}]
            /\ UNCHANGED << data_queue, work_queue, produced >>
       ELSE /\ tasks' = [tasks EXCEPT ![i] =
                           [Invoke(@) EXCEPT !.pc = "succeeded"]]
            /\ produced' = produced (+) DataBag(<< res >>)
            /\ IF IsDictOrBaseModel(res)
                 THEN /\ data_queue' = Append(data_queue, res)
                      /\ UNCHANGED work_queue
                 ELSE /\ work_queue' = Append(work_queue, res)
                      /\ UNCHANGED data_queue
            /\ UNCHANGED << failures, stats >>
  /\ UNCHANGED << unit, config, requests, seen_requests, started, semaphore, cache,
                  has_written, disk, pc, error, stop_event, run, emitted,
                  history >>

\* asyncio.gather returns once every task of the batch has finished; with
\* the cache in use write_periodically follows, which flushes when the write
\* interval has elapsed.
gather_returns(elapsed) ==
  /\ pc = "gather"
  /\ \A i \in DOMAIN tasks : tasks[i].pc \in Terminal
  /\ pc' = "loop"
  /\ tasks' = << >>
  /\ IF config.cache_use /\ elapsed
       THEN /\ disk' = flush(cache, has_written, disk)
            /\ stats' = [stats EXCEPT !.flushes = @ + Flushed(has_written),
                                      !.tick_flushes = @ + Flushed(has_written)]
       ELSE UNCHANGED << disk, stats >>
  /\ UNCHANGED << unit, config, requests, work_queue, data_queue, failures,
                  seen_requests, started, semaphore, cache, has_written,
                  error, stop_event, run, produced, emitted, history >>

\* SIGINT or SIGTERM is delivered while the cache object exists: the handler
\* installed by AsyncCache.__init__ runs flush() as a task.  Whether the
\* delivery also sets the stop signal is left open.
on_signal(stops) ==
  /\ config.cache_use
  /\ pc \in {"loop", "gather"}
  /\ stats.signals = 0
  /\ disk' = flush(cache, has_written, disk)
  /\ stats' = [stats EXCEPT !.flushes = @ + Flushed(has_written),
                            !.signals = @ + 1]
  /\ stop_event' = (stop_event \/ stops)
  /\ UNCHANGED << unit, config, requests, work_queue, data_queue, failures,
                  seen_requests, started, semaphore, cache, has_written,
                  tasks, pc, error, run, produced, emitted, history >>

\* DataWorker.get_data_item, called by the facade once the worker has run
\* while has_no_more_data() is false.
get_data_item ==
  /\ pc = "done"
  /\ data_queue # << >>
  /\ emitted' = emitted (+) SetToBag({Head(data_queue)})
  /\ data_queue' = Tail(data_queue)
  /\ UNCHANGED << unit, config, requests, work_queue, failures, seen_requests,
                  started, semaphore, cache, has_written, disk, tasks, pc,
                  error, stop_event, run, stats, produced, history >>

\* The iteration over the service has ended.
IterationEnded == pc = "done" /\ data_queue = << >>

\* A later run: a new worker and a new cache object on the same seeds,
\* configuration and cache path.
new_run ==
  /\ IterationEnded \/ pc = "crashed"
  /\ run < MaxRuns
  /\ run' = run + 1
  /\ history' = Append(history, [emitted |-> emitted,
                                 clean |-> /\ error = ""
                                           /\ \A u \in Urls : failures[u] = ""])
  /\ work_queue' = << >>
  /\ data_queue' = << >>
  /\ failures' = [u \in Urls |-> ""]
  /\ seen_requests' = {}
  /\ started' = FALSE
  /\ semaphore' = config.max_concurrency
  /\ cache' = << >>
  /\ has_written' = FALSE
  /\ tasks' = << >>
  /\ pc' = "start"
  /\ error' = ""
  /\ stop_event' = FALSE
  /\ stats' = ZeroStats
  /\ produced' = EmptyBag
  /\ emitted' = EmptyBag
  /\ UNCHANGED << unit, config, requests, disk >>

Next ==
  \/ _enqueue_start_requests
  \/ cache_context_enter
  \/ fetch_loop
  \/ \E i \in 1..3 : _handle_queue_item(i)
  \/ \E i \in 1..3 : _make_request(i)
  \/ \E i \in 1..3 : \E o \in FetchOutcomes : client_returns(i, o)
  \/ \E i \in 1..3 : _handle_callback(i)
  \/ \E e \in BOOLEAN : gather_returns(e)
  \/ get_data_item

Spec == Init /\ [][Next]_vars

\* The worker under a facade that may set the stop signal.
NextStop == Next \/ set_stop
SpecStop == Init /\ [][NextStop]_vars

\* The event loop keeps running whatever is ready, and every client call and
\* callback returns.
FairSpecStop == SpecStop /\ WF_vars(Next)

\* A crawl with deduplication enabled: page a links to b and to itself, page
\* b links back to a and to itself (parse_links of the crawler example).
InitCrawl ==
  /\ unit = NoUnit
  /\ config \in Configs
  /\ config.deduplication
  /\ requests = << Req("a", 0, "links_a") >>
  /\ work_queue = << >>
  /\ data_queue = << >>
  /\ failures = [u \in Urls |-> ""]
  /\ seen_requests = {}
  /\ started = FALSE
  /\ semaphore = config.max_concurrency
  /\ cache = << >>
  /\ has_written = FALSE
  /\ disk = << >>
  /\ tasks = << >>
  /\ pc = "start"
  /\ error = ""
  /\ stop_event = FALSE
  /\ run = 1
  /\ stats = ZeroStats
  /\ produced = EmptyBag
  /\ emitted = EmptyBag
  /\ history = << >>
FairSpecCrawl == InitCrawl /\ [][Next]_vars /\ WF_vars(Next)

\* Consecutive runs on one cache path, with the cache in use.
InitRuns == Init /\ config.cache_use
NextRuns == Next \/ new_run
SpecRuns == InitRuns /\ [][NextRuns]_vars

\* The same, counting the requests that reach the client after the stop
\* signal.
NextStopCounted == Next \/ set_stop_counted
SpecStopCounted == Init /\ [][NextStopCounted]_vars

\* One run with the cache in use during which a signal may be delivered.
InitSignal == Init /\ config.cache_use
NextSignal == Next \/ \E s \in BOOLEAN : on_signal(s)
SpecSignal == InitSignal /\ [][NextSignal]_vars

\* ------------------------------------------------ the cache object alone
\* The variables of the worker, which stay as DataWorker.__init__ left them
\* while a component is exercised on its own.
WorkerVars ==
  << config, requests, work_queue, data_queue, failures, seen_requests,
     started, semaphore, cache, has_written, disk, tasks, pc, error,
     stop_event, run, stats, produced, emitted, history >>

IdleWorker ==
  /\ config = [deduplication |-> FALSE, cache_use |-> FALSE, delay |-> FALSE,
               max_attempts |-> 0, max_concurrency |-> 1]
  /\ requests = << >>
  /\ work_queue = << >>
  /\ data_queue = << >>
  /\ failures = [u \in Urls |-> ""]
  /\ seen_requests = {}
  /\ started = FALSE
  /\ semaphore = 1
  /\ cache = << >>
  /\ has_written = FALSE
  /\ disk = << >>
  /\ tasks = << >>
  /\ pc = "start"
  /\ error = ""
  /\ stop_event = FALSE
  /\ run = 1
  /\ stats = ZeroStats
  /\ produced = EmptyBag
  /\ emitted = EmptyBag
  /\ history = << >>

CacheTypes == {"json", "pickle", "remote"}
CacheValues == {1, 2}
NoEntries == << >>
StoredEntries == {NoEntries} \cup {"k" :> v : v \in CacheValues}

\* RemoteCache.flush calls save_state whatever has_written is; LocalCache.flush
\* writes only after a set.
variant_flush(variant, c, hw, d) ==
  IF variant = "remote" THEN c ELSE flush(c, hw, d)
variant_writes(variant, hw) ==
  IF variant = "remote" THEN TRUE ELSE Flushed(hw) = 1

\* A test that lets the interval pass by one more unit.
interval_elapsed_late(now, start_time, interval) == now - start_time > interval

\* time.time() - self.start_time >= interval
interval_elapsed(now, start_time, interval) == now - start_time >= interval

\* CacheFactory.init_cache: the cache object is built (empty map, clean,
\* start_time = now) and loaded from what the backing store holds.
InitCacheUnit ==
  /\ IdleWorker
  /\ \E variant \in CacheTypes, d \in StoredEntries, iv \in 0..2 :
       unit = [ kind        |-> "cache",
                variant     |-> variant,
                cache       |-> init_cache(d),
                has_written |-> FALSE,
                store       |-> d,
                writer      |-> "",        \* who is persisting: "", "flush", "tick"
                interval    |-> iv,        \* cache.write_interval
                start_time  |-> 0,
                now         |-> 0,
                since_set   |-> 0,         \* snapshots persisted since the last set
                op          |-> "init",    \* the operation that acted last
                got         |-> 0,         \* what the last get returned, 0 for None
                failed      |-> FALSE,     \* a snapshot write has failed
                propagated  |-> "" ]       \* exception flush() let out

\* The lock of the cache object is held from the start of a local flush to
\* its end.
Locked == unit.writer # "" /\ unit.variant # "remote"

\* AsyncCache.set
unit_set(v) ==
  /\ unit.kind = "cache"
  /\ ~Locked
  /\ unit' = [unit EXCEPT !.cache = cache_set(unit.cache, "k", v),
                          !.has_written = TRUE,
                          !.since_set = 0,
                          !.op = "set"]
  /\ UNCHANGED WorkerVars

\* AsyncCache.get
unit_get ==
  /\ unit.kind = "cache"
  /\ ~Locked
  /\ unit' = [unit EXCEPT !.got = IF "k" \in DOMAIN unit.cache
                                     THEN unit.cache["k"] ELSE 0,
                          !.op = "get"]
  /\ UNCHANGED WorkerVars

\* AsyncCache.delete and AsyncCache.clear: neither takes the lock.
unit_delete ==
  /\ unit.kind = "cache"
  /\ "k" \in DOMAIN unit.cache
  /\ unit' = [unit EXCEPT !.cache = NoEntries, !.op = "delete"]
  /\ UNCHANGED WorkerVars

unit_clear ==
  /\ unit.kind = "cache"
  /\ unit.op # "clear"
  /\ unit' = [unit EXCEPT !.cache = NoEntries, !.op = "clear"]
  /\ UNCHANGED WorkerVars

\* flush(), called by who ("flush": directly or from __aexit__, "tick": from
\* write_periodically), up to its first suspension point: a local cache that
\* was never set returns at once; otherwise the lock is taken and sync_flush
\* starts in a thread, or save_state is awaited.
BeginFlush(who) ==
  IF variant_writes(unit.variant, unit.has_written)
    THEN [unit EXCEPT !.writer = who,
                      !.op = IF who = "tick" THEN "tick_begin" ELSE "flush_begin"]
    ELSE [unit EXCEPT !.op = IF who = "tick" THEN "tick_clean" ELSE "flush_clean",
                      !.start_time = IF who = "tick" THEN unit.now ELSE @]

unit_flush ==
  /\ unit.kind = "cache"
  /\ unit.writer = ""
  /\ unit.since_set < 2
  /\ unit' = BeginFlush("flush")
  /\ UNCHANGED WorkerVars

\* sync_flush or save_state returns: the backing store holds the map, the
\* lock is released; write_periodically then sets start_time.
unit_flush_done ==
  /\ unit.kind = "cache"
  /\ unit.writer # ""
  /\ unit' = [unit EXCEPT
       !.store = variant_flush(unit.variant, unit.cache, unit.has_written, @),
       !.since_set = @ + 1,
       !.writer = "",
       !.start_time = IF unit.writer = "tick" THEN unit.now ELSE @,
       !.op = IF unit.writer = "tick" THEN "tick_done" ELSE "flush_done"]
  /\ UNCHANGED WorkerVars

\* What open(), json.dump and pickle.dump raise when the snapshot cannot be
\* written: all subclasses of Exception.
WriteErrors == {"OSError", "TypeError", "PicklingError"}

\* An except clause that lets everything through.
flush_catches_nothing(exc) == exc \in {}

\* LocalCache.flush: `except Exception` around the locked write.
flush_catches(exc) == exc \in WriteErrors

\* sync_flush raises exc in the thread, before opening the file or after
\* having truncated it (damaged): the lock is released on the way out of
\* `async with`, the except clause logs the error, and write_periodically
\* goes on to set start_time.
unit_flush_fails(exc, damaged) ==
  /\ unit.kind = "cache"
  /\ unit.writer # ""
  /\ unit.variant # "remote"
  /\ unit' = [unit EXCEPT
       !.store = IF damaged THEN NoEntries ELSE @,
       !.writer = "",
       !.failed = TRUE,
       !.propagated = IF flush_catches(exc) THEN "" ELSE exc,
       !.start_time = IF unit.writer = "tick" /\ flush_catches(exc)
                        THEN unit.now ELSE @,
       !.op = IF unit.writer = "tick" THEN "tick_failed" ELSE "flush_failed"]
  /\ UNCHANGED WorkerVars

\* AsyncCache.write_periodically
write_periodically ==
  /\ unit.kind = "cache"
  /\ unit.writer = ""
  /\ unit.since_set < 2
  /\ unit' = IF interval_elapsed(unit.now, unit.start_time, unit.interval)
               THEN BeginFlush("tick")
               ELSE [unit EXCEPT !.op = "tick_skipped"]
  /\ UNCHANGED WorkerVars

\* time.time() moves on.
unit_clock ==
  /\ unit.kind = "cache"
  /\ unit.now < MaxTime
  /\ unit' = [unit EXCEPT !.now = @ + 1, !.op = "clock"]
  /\ UNCHANGED WorkerVars

NextCacheUnit ==
  \/ \E v \in CacheValues : unit_set(v)
  \/ unit_get
  \/ unit_delete
  \/ unit_clear
  \/ unit_flush
  \/ unit_flush_done
  \/ \E exc \in WriteErrors, damaged \in BOOLEAN :
       unit_flush_fails(exc, damaged)
  \/ write_periodically
  \/ unit_clock

SpecCacheUnit == InitCacheUnit /\ [][NextCacheUnit]_vars

\* ------------------------------------------------------------ CacheConfig
\* A path is the sequence of the parts str(path).split(".") yields.
PathParts == {"cache", "json", "jsonl", "pkl", "pickle", "txt"}
Paths == UNION {[1..n -> PathParts] : n \in 1..MaxPathParts}

\* CacheConfig.validate: "ok" when the model is returned, otherwise the
\* exception raised. split(".")[1] of a path with no dot is an IndexError.
CacheConfig_validate(c) ==
  IF c.cache_type = "remote" /\ ~c.save_state /\ ~c.load_state
    THEN "ValueError"
  ELSE IF c.cache_type = "json"
    THEN IF Len(c.path) < 2 THEN "IndexError"
         ELSE IF c.path[2] \notin {"json", "jsonl", "json.gz"}
                THEN "ValueError" ELSE "ok"
  ELSE IF c.cache_type = "pickle"
    THEN IF Len(c.path) < 2 THEN "IndexError"
         ELSE IF c.path[2] \notin {"pkl", "pickle"}
                THEN "ValueError" ELSE "ok"
  ELSE "ok"

\* The keyword arguments given to CacheConfig(...); save_state and load_state
\* are TRUE when a callable is passed, FALSE when left None.
InitConfig ==
  /\ IdleWorker
  /\ \E ct \in CacheTypes, path \in Paths, ss \in BOOLEAN, ls \in BOOLEAN :
       unit = [ kind       |-> "config",
                cache_type |-> ct,
                path       |-> path,
                save_state |-> ss,
                load_state |-> ls,
                result     |-> "" ]

validate_cache_config ==
  /\ unit.kind = "config"
  /\ unit.result = ""
  /\ unit' = [unit EXCEPT !.result = CacheConfig_validate(unit)]
  /\ UNCHANGED WorkerVars

SpecConfig == InitConfig /\ [][validate_cache_config]_vars

\* ------------------------------------------------------ Request.unique_key
\* A dict is the sequence of its (key, value) items in insertion order; the
\* empty sequence stands for None and for {}, which unique_key and validate
\* both treat as false.
DictKeys == {"p", "q"}
Dicts ==
  {d \in UNION {[1..n -> DictKeys \X {"1"}] : n \in 0..Cardinality(DictKeys)} :
     \A i, j \in DOMAIN d : i # j => d[i][1] # d[j][1]}

\* dict.__eq__: the same items, whatever their order.
DictItems(d) == {d[i] : i \in DOMAIN d}

\* Request.validate
Request_validate(r) ==
  IF r.method = "POST" /\ r.form_data = << >> /\ r.json_data = << >>
    THEN "ValueError"
  ELSE IF r.method = "GET" /\ (r.form_data # << >> \/ r.json_data # << >>)
    THEN "ValueError"
  ELSE "ok"

FullRequests ==
  {r \in [method : {"GET", "POST"}, url : {"a"},
          params : Dicts, form_data : Dicts, json_data : Dicts] :
     Request_validate(r) = "ok"}

\* str(dict), as the characters "{'p': 1, 'q': 1}" token by token.
RECURSIVE DictRepr(_)
DictRepr(d) ==
  IF d = << >> THEN << >>
  ELSE <<Head(d)[1], ":", Head(d)[2]>>
       \o (IF Tail(d) = << >> THEN << >> ELSE <<",">>)
       \o DictRepr(Tail(d))

KeyPart(d) == IF d # << >> THEN <<" ", "{">> \o DictRepr(d) \o <<"}">> ELSE << >>

\* Request.unique_key on the full request
Request_unique_key(r) ==
  <<r.method, " ", r.url>>
    \o KeyPart(r.params) \o KeyPart(r.form_data) \o KeyPart(r.json_data)

\* Two validated requests whose keys are about to be compared.
InitKey ==
  /\ IdleWorker
  /\ \E r1 \in FullRequests, r2 \in FullRequests :
       unit = [kind |-> "key", r1 |-> r1, r2 |-> r2,
               key1 |-> << >>, key2 |-> << >>]

compute_unique_keys ==
  /\ unit.kind = "key"
  /\ unit.key1 = << >>
  /\ unit' = [unit EXCEPT !.key1 = Request_unique_key(unit.r1),
                          !.key2 = Request_unique_key(unit.r2)]
  /\ UNCHANGED WorkerVars

SpecKey == InitKey /\ [][compute_unique_keys]_vars

\* ------------------------------------------------------------ rate limiter
\* The requests of one batch, gathered together.
LimitedRequests == {1, 2}

\* Times t of the sequence ts with now - period < t <= now.
InWindow(ts, now, period) ==
  {j \in DOMAIN ts : now - period < ts[j] /\ ts[j] <= now}

\* The limiter admits an acquisition when fewer than max_rate acquisitions
\* lie in the window of time_period ending now.
limiter_has_capacity(admits, now, max_rate, period) ==
  Cardinality(InWindow(admits, now, period)) < max_rate

\* DataWorker with config.limiter set and a batch of requests not yet
\* handled; wait is the pause tenacity makes before a retry.
InitLimiter ==
  /\ IdleWorker
  /\ \E mr \in 1..2, tp \in 1..2, ma \in 1..MaxAttemptsBound, w \in 0..1 :
       unit = [ kind         |-> "limiter",
                max_rate     |-> mr,
                time_period  |-> tp,
                max_attempts |-> ma,
                wait         |-> w,
                now          |-> 0,
                admits       |-> << >>,   \* times the limiter was acquired
                starts       |-> << >>,   \* times a client call started
                reqs |-> [i \in LimitedRequests |->
                            [pc |-> "pending", attempts |-> 0, wake |-> 0]] ]

\* async with self.limiter_context: the request waits for capacity.
limiter_acquire(i) ==
  /\ unit.kind = "limiter"
  /\ unit.reqs[i].pc = "pending"
  /\ limiter_has_capacity(unit.admits, unit.now, unit.max_rate, unit.time_period)
  /\ unit' = [unit EXCEPT !.admits = Append(@, unit.now),
                          !.reqs[i].pc = "admitted"]
  /\ UNCHANGED WorkerVars

\* _make_request inside the retry envelope, first attempt or retry: the
\* limiter is not asked again.
limited_fetch_start(i) ==
  /\ unit.kind = "limiter"
  /\ \/ unit.reqs[i].pc = "admitted"
     \/ unit.reqs[i].pc = "backoff" /\ unit.now >= unit.reqs[i].wake
  /\ unit' = [unit EXCEPT !.starts = Append(@, unit.now),
                          !.reqs[i].attempts = @ + 1,
                          !.reqs[i].pc = "fetching"]
  /\ UNCHANGED WorkerVars

\* The client returns a response or raises RetryableException.
limited_fetch_returns(i, outcome) ==
  /\ unit.kind = "limiter"
  /\ unit.reqs[i].pc = "fetching"
  /\ unit' =
       IF outcome = "RetryableException"
          /\ ~RetryStop(unit.reqs[i].attempts, unit.max_attempts)
         THEN [unit EXCEPT !.reqs[i].pc = "backoff",
                           !.reqs[i].wake = unit.now + unit.wait]
         ELSE [unit EXCEPT !.reqs[i].pc = "done"]
  /\ UNCHANGED WorkerVars

limiter_clock ==
  /\ unit.kind = "limiter"
  /\ unit.now < MaxClock
  /\ unit' = [unit EXCEPT !.now = @ + 1]
  /\ UNCHANGED WorkerVars

NextLimiter ==
  \/ \E i \in LimitedRequests : limiter_acquire(i)
  \/ \E i \in LimitedRequests : limited_fetch_start(i)
  \/ \E i \in LimitedRequests, outcome \in {"Response", "RetryableException"} :
       limited_fetch_returns(i, outcome)
  \/ limiter_clock

SpecLimiter == InitLimiter /\ [][NextLimiter]_vars

\* -------------------------------------------------------------- data items
\* The fields of a data item, in the order a dict literal lists them.
Fields == <<"a", "b">>
FieldSet == {Fields[i] : i \in DOMAIN Fields}

\* What can be supplied for a field: a plain value, a zero-argument callable
\* that returns a value, or one that raises.
Supplied ==
  { [callable |-> FALSE, returns |-> "1", raises |-> ""],
    [callable |-> TRUE,  returns |-> "2", raises |-> ""],
    [callable |-> TRUE,  returns |-> "",  raises |-> "ZeroDivisionError"],
    [callable |-> TRUE,  returns |-> "",  raises |-> "ValueError"] }

\* str(exception)
ExcMessage(exc) ==
  IF exc = "ZeroDivisionError" THEN "division by zero" ELSE "error"

\* dicts of supplied fields: functions on a subset of the fields
Mappings == UNION {[D -> Supplied] : D \in SUBSET FieldSet}

\* A maybe that reports no exception.
maybe_silent(value) ==
  IF value.callable
    THEN IF value.raises = "" THEN <<value.returns, "">> ELSE <<"None", "">>
    ELSE <<value.returns, "">>

\* DataWrapper.maybe: (value, exception), "" for no exception
maybe(value) ==
  IF value.callable
    THEN IF value.raises = "" THEN <<value.returns, "">>
                              ELSE <<"None", value.raises>>
    ELSE <<value.returns, "">>

\* DataWrapper._set_item followed by the store into the dict, as __setitem__
\* and both loops of __init__ do. w.evals counts the calls of the callable
\* supplied for each key and w.raised holds the keys whose current value came
\* from a callable that raised (observation only).
DataWrapper__setitem__(w, key, value) ==
  LET r == maybe(value) IN
    [ data   |-> (key :> r[1]) @@ w.data,
      errors |-> IF r[2] # ""
                   THEN (key :> [type |-> r[2], message |-> ExcMessage(r[2])])
                        @@ w.errors
                   ELSE w.errors,
      evals  |-> [w.evals EXCEPT ![key] = @ + (IF value.callable THEN 1 ELSE 0)],
      raised |-> IF r[2] # "" THEN w.raised \cup {key} ELSE w.raised \ {key} ]

\* for key, value in mapping.items(): mapping[key] = self._set_item(key, value)
RECURSIVE set_items(_, _, _)
set_items(w, mapping, keys) ==
  IF keys = << >> THEN w
  ELSE set_items(IF Head(keys) \in DOMAIN mapping
                   THEN DataWrapper__setitem__(w, Head(keys), mapping[Head(keys)])
                   ELSE w,
                 mapping, Tail(keys))

EmptyWrapper ==
  [data |-> << >>, errors |-> << >>, evals |-> [k \in FieldSet |-> 0],
   raised |-> {}]

\* DataWrapper.__init__(mapping, **kwargs); BaseDataItem._run_callables makes
\* the same call with the keyword arguments of the model as mapping.
DataWrapper__init__(mapping, kwargs) ==
  set_items(set_items(EmptyWrapper, mapping, Fields), kwargs, Fields)

InitData ==
  /\ IdleWorker
  /\ \E mapping \in Mappings, kwargs \in Mappings :
       unit = [kind |-> "data", mapping |-> mapping, kwargs |-> kwargs,
               built |-> FALSE, wrapper |-> EmptyWrapper, assigned |-> 0]

data_construct ==
  /\ unit.kind = "data"
  /\ ~unit.built
  /\ unit' = [unit EXCEPT !.built = TRUE,
                          !.wrapper = DataWrapper__init__(unit.mapping, unit.kwargs)]
  /\ UNCHANGED WorkerVars

\* d[key] = value
data_setitem(key, value) ==
  /\ unit.kind = "data"
  /\ unit.built
  /\ unit.assigned < MaxAssign
  /\ unit' = [unit EXCEPT
       !.assigned = @ + 1,
       !.wrapper = DataWrapper__setitem__(
                     [unit.wrapper EXCEPT !.evals = [k \in FieldSet |-> 0]],
                     key, value)]
  /\ UNCHANGED WorkerVars

NextData ==
  \/ data_construct
  \/ \E key \in FieldSet, value \in Supplied : data_setitem(key, value)

SpecData == InitData /\ [][NextData]_vars

\* ------------------------------------------------------- _raise_for_status
\* The status codes HTTP defines.
StatusCodes == 100..599

\* BaseClient._raise_for_status: "" when it returns, otherwise the class of
\* the exception it raises.
_raise_for_status(status_code) ==
  IF status_code = 200 THEN ""
  ELSE IF (500 <= status_code /\ status_code < 600) \/ status_code \in {429, 403}
    THEN "RetryableException"
  ELSE "NonRetryableException"

InitStatus ==
  /\ IdleWorker
  /\ \E sc \in StatusCodes :
       unit = [kind |-> "status", status_code |-> sc, called |-> FALSE,
               raised |-> ""]

raise_for_status ==
  /\ unit.kind = "status"
  /\ ~unit.called
  /\ unit' = [unit EXCEPT !.called = TRUE,
                          !.raised = _raise_for_status(unit.status_code)]
  /\ UNCHANGED WorkerVars

SpecStatus == InitStatus /\ [][raise_for_status]_vars

\* -------------------------------------------------------------- retry wait
PyMax(a, b) == IF a >= b THEN a ELSE b
PyMin(a, b) == IF a <= b THEN a ELSE b

\* exp_base ** k with exp_base = 2
RECURSIVE PowerOfTwo(_)
PowerOfTwo(k) == IF k = 0 THEN 1 ELSE 2 * PowerOfTwo(k - 1)

\* A wait whose exponent is the number of the failed attempt itself.
wait_exponential_late(attempt_number, multiplier, min, max) ==
  PyMax(PyMax(0, min), PyMin(multiplier * PowerOfTwo(attempt_number), max))

\* tenacity's wait_exponential(multiplier, min, max), called with the number
\* of the attempt that has just failed.
wait_exponential(attempt_number, multiplier, min, max) ==
  PyMax(PyMax(0, min), PyMin(multiplier * PowerOfTwo(attempt_number - 1), max))

\* RetryConfig: three settings, each an int >= 0; a request whose attempts
\* keep failing.
InitWait ==
  /\ IdleWorker
  /\ \E mul \in 0..MaxWaitSetting, mn \in 0..MaxWaitSetting,
        mx \in 0..MaxWaitSetting :
       unit = [kind |-> "wait", wait_exp_mul |-> mul, wait_exp_min |-> mn,
               wait_exp_max |-> mx,
               attempt_number |-> 1,    \* the attempt in progress
               delays |-> << >>]        \* delays[j] precedes attempt j + 1

\* The attempt in progress fails and the retry envelope sleeps.
retry_wait ==
  /\ unit.kind = "wait"
  /\ Len(unit.delays) < MaxWaits
  /\ unit' = [unit EXCEPT
       !.delays = Append(@, wait_exponential(unit.attempt_number,
                                             unit.wait_exp_mul,
                                             unit.wait_exp_min,
                                             unit.wait_exp_max)),
       !.attempt_number = @ + 1]
  /\ UNCHANGED WorkerVars

SpecWait == InitWait /\ [][retry_wait]_vars

\* ------------------------------------------------------------ cache_request
\* Request.url_encoded: the URL with the params appended as a query string.
url_encoded(r) == IF r.params # 0 THEN <<r.url, "?", r.params>> ELSE <<r.url>>

\* What an earlier run may have stored under a key: the (text, data) the site
\* serves now, or an older one.
StaleValue == <<"old", 0>>
CachedRequests == {Req("a", 0, "parse_item"), Req("p", 1, "parse_item")}
CachedMaps ==
  UNION {[D -> {StaleValue} \cup {ResponseValue(r) : r \in CachedRequests}] :
           D \in SUBSET {unique_key(r) : r \in CachedRequests}}

\* cache_request(cache) applied to one request; the cache may hold entries
\* and may already be dirty.
InitCacheRequest ==
  /\ IdleWorker
  /\ \E r \in CachedRequests, c \in CachedMaps, hw \in BOOLEAN :
       unit = [kind |-> "cache_request", request |-> r, cache |-> c,
               has_written |-> hw, pc |-> "call", client_calls |-> 0,
               result |-> << >>, raised |-> ""]

\* inner() up to its first suspension: on a hit the stored pair is read and
\* the Response built; on a miss the client is called.
cache_request_inner ==
  /\ unit.kind = "cache_request"
  /\ unit.pc = "call"
  /\ unit' =
       IF CacheHit(unit.cache, unit.request)
         THEN [unit EXCEPT
                 !.pc = "returned",
                 !.result = [text_data |-> unit.cache[unique_key(unit.request)],
                             url |-> url_encoded(unit.request)]]
         ELSE [unit EXCEPT !.pc = "fetching", !.client_calls = @ + 1]
  /\ UNCHANGED WorkerVars

\* request.client(request) ends: its response is stored and returned, or its
\* exception leaves inner().
cache_request_client_returns(outcome) ==
  /\ unit.kind = "cache_request"
  /\ unit.pc = "fetching"
  /\ unit' =
       IF outcome = "Response"
         THEN [unit EXCEPT
                 !.pc = "returned",
                 !.cache = cache_set(@, unique_key(unit.request),
                                     ResponseValue(unit.request)),
                 !.has_written = TRUE,
                 !.result = [text_data |-> ResponseValue(unit.request),
                             url |-> <<unit.request.url>>]]
         ELSE [unit EXCEPT !.pc = "raised", !.raised = outcome]
  /\ UNCHANGED WorkerVars

NextCacheRequest ==
  \/ cache_request_inner
  \/ \E outcome \in FetchOutcomes : cache_request_client_returns(outcome)

SpecCacheRequest == InitCacheRequest /\ [][NextCacheRequest]_vars

\* ------------------------------------------------------- client registry
\* Client objects: two instances of one class and an instance of another.
ClientObjects ==
  { [class |-> "HttpXClient", id |-> 1],
    [class |-> "HttpXClient", id |-> 2],
    [class |-> "PlaywrightClient", id |-> 3] }

\* _get_func_name of a client object, which has no __name__: the name of its
\* class.
_get_func_name(func) == func.class

\* The client _handle_request hands to _wrap_retry for a request whose
\* client attribute is attached, and the registry it leaves.
_handle_request(clients, attached) ==
  LET key == _get_func_name(attached)
      reg == IF key \notin DOMAIN clients THEN (key :> attached) @@ clients
                                          ELSE clients
  IN [client |-> reg[key], clients |-> reg]

InitClients ==
  /\ IdleWorker
  /\ unit = [kind |-> "clients", _clients |-> << >>, calls |-> << >>]

\* Worker w, one of the DataWorker instances of the process, handles a
\* request whose client is attached; _clients is an attribute of the class.
handle_request(w, attached) ==
  /\ unit.kind = "clients"
  /\ Len(unit.calls) < MaxHandled
  /\ LET h == _handle_request(unit._clients, attached) IN
       unit' = [unit EXCEPT
                  !._clients = h.clients,
                  !.calls = Append(@, [worker |-> w, attached |-> attached,
                                       invoked |-> h.client])]
  /\ UNCHANGED WorkerVars

SpecClients ==
  /\ InitClients
  /\ [][\E w \in {"w1", "w2"}, attached \in ClientObjects :
          handle_request(w, attached)]_vars

\* ---------------------------------------------------------------- Pipeline
\* _nodes is a dict in insertion order: a sequence of [key, funcs].  A step
\* function is named; applying it appends its name and the number of the
\* call that added it to the results, so that the results tell which
\* functions ran and in which order.
LeafKey == -1

HasNode(nodes, key) == \E j \in DOMAIN nodes : nodes[j].key = key

\* self._nodes[key].append(func) / .extend(funcs) on a defaultdict
NodesExtend(nodes, key, funcs) ==
  IF HasNode(nodes, key)
    THEN [j \in DOMAIN nodes |->
            IF nodes[j].key = key
              THEN [nodes[j] EXCEPT !.funcs = @ \o funcs] ELSE nodes[j]]
    ELSE Append(nodes, [key |-> key, funcs |-> funcs])

\* Pipeline._get_last_node: the key inserted last
_get_last_node(nodes) == nodes[Len(nodes)].key

\* Pipeline.add_step
add_step(nodes, func) ==
  LET key == IF nodes = << >> THEN 1 ELSE _get_last_node(nodes) + 1
  IN NodesExtend(nodes, key, <<func>>)

\* Pipeline.add_final_step: the nodes it leaves and what it raises
add_final_step(nodes, funcs) ==
  IF HasNode(nodes, LeafKey)
    THEN [nodes |-> nodes, raised |-> "ValueError"]
    ELSE [nodes |-> NodesExtend(nodes, LeafKey, funcs), raised |-> ""]

\* Pipeline._run_nodes: `(func,) = self._nodes[k]` raises ValueError unless
\* the node holds exactly one function.
RECURSIVE _run_nodes(_, _)
_run_nodes(nodes, results) ==
  IF nodes = << >> THEN [results |-> results, raised |-> ""]
  ELSE IF Head(nodes).key = LeafKey THEN _run_nodes(Tail(nodes), results)
  ELSE IF Len(Head(nodes).funcs) # 1 THEN [results |-> results, raised |-> "ValueError"]
  ELSE _run_nodes(Tail(nodes), Append(results, Head(nodes).funcs[1]))

\* Pipeline._run: the leaf functions are submitted with the results and
\* their return values dropped.
Pipeline_run(nodes) ==
  LET r == _run_nodes(nodes, << >>)
      leaves == IF r.raised = "" /\ HasNode(nodes, LeafKey)
                  THEN (CHOOSE n \in {nodes[j] : j \in DOMAIN nodes} :
                          n.key = LeafKey).funcs
                  ELSE << >>
  IN [results |-> r.results, raised |-> r.raised, leaf_calls |-> leaves]

InitPipeline ==
  /\ IdleWorker
  /\ unit = [kind |-> "pipeline", _nodes |-> << >>,
             calls |-> 0,            \* add_step and add_final_step calls made
             added |-> << >>,        \* the step functions, in the order added
             final_calls |-> 0,
             last_raised |-> "",     \* what the last add_final_step raised
             ran |-> FALSE, run |-> [results |-> << >>, raised |-> "",
                                     leaf_calls |-> << >>]]

pipeline_add_step(name) ==
  /\ unit.kind = "pipeline"
  /\ ~unit.ran
  /\ unit.calls < MaxPipelineCalls
  /\ LET func == [name |-> name, n |-> unit.calls + 1] IN
       unit' = [unit EXCEPT !._nodes = add_step(@, func),
                            !.calls = @ + 1,
                            !.added = Append(@, func)]
  /\ UNCHANGED WorkerVars

pipeline_add_final_step(name) ==
  /\ unit.kind = "pipeline"
  /\ ~unit.ran
  /\ unit.calls < MaxPipelineCalls
  /\ LET func == [name |-> name, n |-> unit.calls + 1]
         a == add_final_step(unit._nodes, <<func>>) IN
       unit' = [unit EXCEPT !._nodes = a.nodes,
                            !.calls = @ + 1,
                            !.final_calls = @ + 1,
                            !.last_raised = a.raised]
  /\ UNCHANGED WorkerVars

pipeline_run ==
  /\ unit.kind = "pipeline"
  /\ ~unit.ran
  /\ unit' = [unit EXCEPT !.ran = TRUE, !.run = Pipeline_run(unit._nodes)]
  /\ UNCHANGED WorkerVars

NextPipeline ==
  \/ \E name \in {"double", "inc"} : pipeline_add_step(name)
  \/ \E name \in {"double", "inc"} : pipeline_add_final_step(name)
  \/ pipeline_run

SpecPipeline == InitPipeline /\ [][NextPipeline]_vars

\* ---------------------------------------------- queue-based request worker
MAX_ASYNC_TASKS == 10

\* The task list after a full batch was awaited and its responses enqueued:
\* service.py assigns tasks = [], workers.py keeps the list.
TasksAfterBatch(variant, batch) ==
  IF variant = "service" THEN << >> ELSE batch

\* The worker is RequestWorker of service.py or RequestsWorker of
\* workers.py.  Requests 1..queued wait on requests_queue; every client call returns the
\* response of its request, written as the request's number.
InitRequestWorker ==
  /\ IdleWorker
  /\ \E variant \in {"service", "workers"}, queued \in 0..MaxQueued :
       unit = [kind |-> "request_worker", variant |-> variant,
               queued |-> queued,
               taken |-> 0,             \* requests got from requests_queue
               tasks |-> << >>,
               responses_queue |-> << >>,
               pc |-> "loop"]

\* One turn of `while has_requests`: get a request, create its task, and at
\* MAX_ASYNC_TASKS tasks await them all and enqueue their results.
process_request ==
  /\ unit.kind = "request_worker"
  /\ unit.pc = "loop"
  /\ unit.taken < unit.queued
  /\ LET batch == Append(unit.tasks, unit.taken + 1) IN
       unit' = IF Len(batch) = MAX_ASYNC_TASKS
                 THEN [unit EXCEPT
                         !.taken = @ + 1,
                         !.responses_queue = @ \o batch,
                         !.tasks = TasksAfterBatch(unit.variant, batch)]
                 ELSE [unit EXCEPT !.taken = @ + 1, !.tasks = batch]
  /\ UNCHANGED WorkerVars

\* requests_queue is empty: the tasks in the list are awaited and their
\* results enqueued.
process_rest ==
  /\ unit.kind = "request_worker"
  /\ unit.pc = "loop"
  /\ unit.taken = unit.queued
  /\ unit' = [unit EXCEPT !.responses_queue = @ \o unit.tasks,
                          !.pc = "done"]
  /\ UNCHANGED WorkerVars

NextRequestWorker == process_request \/ process_rest

SpecRequestWorker == InitRequestWorker /\ [][NextRequestWorker]_vars

\* ===================================================================== claims

\* C1 (as amended): with deduplication enabled _handle_request runs at most
\* once per fingerprint, the duplicate check and the insert being one step;
\* with deduplication disabled it runs once for every request a task handles
\* except those skipped because their URL already has an entry in failures.
C1_DedupAtMostOnce ==
  /\ config.deduplication => \A k \in Keys : stats.handle_calls[k] <= 1
  /\ ~config.deduplication =>
       \A k \in Keys :
         stats.handle_calls[k] + stats.skipped[k] = stats.item_calls[k]

\* C1 witness: a second request with a fingerprint already seen was handled
\* and did not reach _handle_request.
C1_Witness ==
  /\ config.deduplication
  /\ \E k \in Keys : stats.item_calls[k] >= 2 /\ stats.handle_calls[k] = 1

\* C1 as stated: with deduplication disabled _handle_request runs once for
\* every submitted request.
C1_Original ==
  /\ config.deduplication => \A k \in Keys : stats.handle_calls[k] <= 1
  /\ ~config.deduplication /\ IterationEnded =>
       \A k \in Keys : stats.handle_calls[k] = stats.item_calls[k]

\* C2 as stated: once a URL has an entry in failures no client call for a
\* request with that URL begins.
C2_FailuresTerminal ==
  [][\A k \in Keys :
       stats'.fetch_calls[k] > stats.fetch_calls[k] => failures[k[1]] = ""]_vars

\* C3 as stated: the data queue never holds a Request.
C3_NoRequestOnDataQueue ==
  \A i \in DOMAIN data_queue : ~IsRequest(data_queue[i])

\* C4 as stated: the number of client calls in flight never exceeds
\* max_concurrency.
C4_ConcurrencyBound == InFlight <= config.max_concurrency

\* C5 (as amended): the client is called at most max(1, max_attempts) times
\* for one request; the first attempt is made whatever max_attempts is.
C5_AttemptsBounded ==
  \A i \in DOMAIN tasks :
    tasks[i].fetches <= (IF config.max_attempts = 0 THEN 1 ELSE config.max_attempts)

\* C5 witness: a request was retried until its attempts were used up.
C5_Witness ==
  \E i \in DOMAIN tasks :
    /\ config.max_attempts >= 2
    /\ tasks[i].fetches = config.max_attempts
    /\ tasks[i].pc = "failed"

\* C5 as stated: at most max_attempts client calls for one request.
C5_Original ==
  \A i \in DOMAIN tasks : tasks[i].fetches <= config.max_attempts

\* C6 as stated: an exception raised by a callback, in the call or while its
\* generator is iterated, is recorded in failures under the request's URL and
\* does not end fetch().
C6_CallbackErrorsContained ==
  /\ error # "GeneratorError"
  /\ \A u \in stats.cb_raised : failures[u] # ""

\* C7 (as amended): with the cache enabled, once a fingerprint is stored in
\* the cache every later lookup for it is a hit and calls no client; two
\* requests sharing a fingerprint cost one client call only when the first
\* response was stored before the second lookup.
C7_CachedNeverRefetched ==
  /\ [][\A i \in DOMAIN tasks :
          ( /\ config.cache_use
            /\ i \in DOMAIN tasks'
            /\ tasks'[i].attempts > tasks[i].attempts
            /\ unique_key(tasks[i].item) \in DOMAIN cache )
          => /\ tasks'[i].pc = "callback"
             /\ stats'.fetch_calls = stats.fetch_calls
             /\ stats'.cache_hits[unique_key(tasks[i].item)]
                  = stats.cache_hits[unique_key(tasks[i].item)] + 1]_vars
  /\ []( ( /\ config.cache_use
           /\ ~config.deduplication
           /\ config.max_attempts <= 1
           /\ requests = << Req("a", 0, "parse_item"), Req("a", 0, "parse_item") >>
           /\ IterationEnded
           /\ failures["a"] = "" )
         => /\ stats.fetch_calls[<<"a", 0>>] = 1
            /\ stats.cache_hits[<<"a", 0>>] = 1 )

\* C7 witness: of two requests sharing a fingerprint the first was fetched
\* once and the second was answered from the cache.
C7_Witness ==
  /\ config.cache_use
  /\ \E k \in Keys : /\ stats.item_calls[k] >= 2
                     /\ stats.fetch_calls[k] = 1
                     /\ stats.cache_hits[k] >= 1

\* C7 as stated: two requests sharing a fingerprint processed in one run cost
\* exactly one client call and one of them observes a cache hit (here with
\* deduplication off, no retry and no failure, the case most in its favour).
C7_Original ==
  ( /\ config.cache_use
    /\ ~config.deduplication
    /\ config.max_attempts <= 1
    /\ IterationEnded
    /\ \A u \in Urls : failures[u] = "" ) =>
    \A k \in Keys :
      stats.item_calls[k] >= 2 =>
        (stats.fetch_calls[k] = 1 /\ stats.cache_hits[k] >= 1)

C9_EmittedExactlyProduced == IterationEnded => emitted = produced

OnlyData(b) == [x \in {y \in DOMAIN b : y.type = "Data"} |-> b[x]]

C11_BoundedAfterStop == stats.after_stop <= config.max_concurrency

\* C12 as stated: in a run with the cache in use and at least one cache
\* write, shutdown writes the snapshot exactly once, whether the work queue
\* drained or a signal was delivered during the run (the writes made by
\* write_periodically are not counted).
C12_FlushedOnceAtTermination ==
  (config.cache_use /\ has_written /\ pc \in {"done", "crashed"}) =>
    stats.flushes - stats.tick_flushes = 1

\* C13 as stated: every item on the work queue is a Request or a generator,
\* whatever the callbacks return.
C13_WorkQueueItems ==
  \A i \in DOMAIN work_queue :
    IsRequest(work_queue[i]) \/ IsGenerator(work_queue[i])

\* C14 as stated: a value of unknown type returned or yielded by a callback
\* does not end fetch(): the ValueError stays with its task and the items
\* still on the work queue are processed.
C14_UnknownTypeContained == started => error # "ValueError"

\* C15: an attempt is followed by another one only after a Retryable or a
\* Timeout error; a NonRetryable or generic error ends the retry envelope at
\* once and leaves it (into failures or out of fetch()), and when it is the
\* first error of the request the client was called exactly once.
C15_NoRetryUnlessRetryable ==
  /\ [][\A i \in DOMAIN tasks :
          (i \in DOMAIN tasks' /\ tasks[i].pc = "fetching") =>
            /\ tasks'[i].pc = "backoff" =>
                 tasks'[i].exc \in {"RetryableException", "TimeoutException"}
            /\ tasks'[i].exc \in {"NonRetryableException",
                                  "DataServiceException", "Exception"} =>
                 /\ tasks'[i].pc \in {"failed", "raised"}
                 /\ tasks'[i].fetches = tasks[i].fetches
                 /\ \/ failures'[tasks[i].item.url] = tasks'[i].exc
                    \/ error' = tasks'[i].exc]_vars
  /\ [](\A i \in DOMAIN tasks :
          ( /\ tasks[i].exc \in {"NonRetryableException",
                                 "DataServiceException", "Exception"}
            /\ tasks[i].retried = 0 ) =>
            (tasks[i].fetches = 1 /\ tasks[i].pc \in {"failed", "raised"}))

\* C15 witness: with retries allowed, a request failed with a NonRetryable
\* error after one client call.
C15_Witness ==
  \E i \in DOMAIN tasks :
    /\ config.max_attempts >= 2
    /\ tasks[i].exc = "NonRetryableException"
    /\ tasks[i].pc = "failed"
    /\ tasks[i].fetches = 1

\* C16 (as amended): a request whose client call raises Retryable k times and
\* then returns a response has called the client k + 1 times, reaches its
\* callback with one response and adds nothing to failures; a request whose
\* every attempt raises Retryable is re-raised with the last exception after
\* max(1, max_attempts) client calls.
C16_RetryThenSucceed ==
  /\ [](\A i \in DOMAIN tasks :
          /\ ( /\ tasks[i].pc \in {"callback", "succeeded"}
               /\ tasks[i].attempts = tasks[i].fetches ) =>
               /\ tasks[i].fetches = tasks[i].retried + 1
               /\ tasks[i].responses = 1
               /\ tasks[i].retried <
                    (IF config.max_attempts = 0 THEN 1 ELSE config.max_attempts)
          /\ ( /\ tasks[i].pc = "failed"
               /\ tasks[i].exc \in {"RetryableException", "TimeoutException"} ) =>
               /\ tasks[i].fetches =
                    (IF config.max_attempts = 0 THEN 1 ELSE config.max_attempts)
               /\ tasks[i].retried = tasks[i].fetches - 1)
  /\ [][\A i \in DOMAIN tasks :
          ( /\ i \in DOMAIN tasks'
            /\ tasks[i].pc = "fetching"
            /\ tasks'[i].pc = "callback" ) => failures' = failures]_vars

\* C16 witness: a request was retried and then answered by the client, and
\* its callback ran.
C16_Witness ==
  \E i \in DOMAIN tasks :
    /\ tasks[i].retried >= 1
    /\ tasks[i].fetches = tasks[i].retried + 1
    /\ tasks[i].pc = "succeeded"
    /\ failures[tasks[i].item.url] = ""

\* C16 as stated: a request whose every attempt raises Retryable is re-raised
\* after exactly max_attempts client calls.
C16_Original ==
  \A i \in DOMAIN tasks :
    ( /\ tasks[i].pc = "failed"
      /\ tasks[i].exc \in {"RetryableException", "TimeoutException"} ) =>
      tasks[i].fetches = config.max_attempts

\* C17: a request that ends in a NonRetryable error, in a Retryable or
\* Timeout error once the attempts are used up, or in an exception of its
\* callback is recorded in failures under its URL with the name of the
\* exception's class; the step puts nothing on either queue and does not end
\* fetch().
C17_FailuresRecorded ==
  [][\A i \in DOMAIN tasks :
       (i \in DOMAIN tasks' /\ tasks[i].pc \in {"fetching", "callback"}) =>
         /\ tasks'[i].exc \in {"NonRetryableException", "ParsingException"} =>
              tasks'[i].pc = "failed"
         /\ ( /\ tasks'[i].exc \in {"RetryableException", "TimeoutException"}
              /\ RetryStop(tasks[i].attempts, config.max_attempts) ) =>
              tasks'[i].pc = "failed"
         /\ ( /\ tasks'[i].pc = "failed"
              /\ tasks'[i].exc # "DataServiceException" ) =>
              /\ tasks'[i].exc \in {"NonRetryableException", "ParsingException",
                                    "RetryableException", "TimeoutException"}
              /\ failures'[tasks[i].item.url] = tasks'[i].exc
              /\ work_queue' = work_queue
              /\ data_queue' = data_queue
              /\ pc' = pc
              /\ error' = error]_vars

\* C17 witness: the first seed ended in failures after a Timeout, the run
\* went on and the second seed's data item was emitted.
C17_Witness ==
  /\ failures["a"] = "TimeoutException"
  /\ IterationEnded
  /\ emitted # EmptyBag

\* C18 as stated: a generic DataServiceException raised while a request is
\* handled is never recorded in failures.
C18_GenericNotRecorded ==
  \A u \in Urls : failures[u] # "DataServiceException"

\* C19: with deduplication enabled, the request of every entry of failures
\* had its key in the seen set before the entry was recorded, and the seen
\* set covers the URLs of all entries.
C19_FailuresSeen ==
  /\ [](config.deduplication =>
          /\ \A u \in Urls :
               failures[u] # "" => \E k \in seen_requests : k[1] = u
          /\ \A i \in DOMAIN tasks :
               tasks[i].pc = "failed" => DedupKey(tasks[i].item) \in seen_requests)
  /\ [][config.deduplication =>
          \A u \in Urls :
            (failures'[u] # failures[u] /\ failures'[u] # "") =>
              \E k \in seen_requests : k[1] = u]_vars

\* C19 witness: with deduplication enabled a request failed.
C19_Witness ==
  /\ config.deduplication
  /\ \E u \in Urls : failures[u] # "" /\ \E k \in seen_requests : k[1] = u

\* C20: the callback of a request runs once for its response and only after
\* it: not before the fetch has succeeded, not for a request that failed in
\* the fetch or was skipped, and once however many attempts the fetch took.
C20_CallbackOncePerResponse ==
  \A i \in DOMAIN tasks :
    /\ tasks[i].cb_calls <= tasks[i].responses
    /\ tasks[i].responses <= 1
    /\ tasks[i].pc = "callback" =>
         (tasks[i].responses = 1 /\ tasks[i].cb_calls = 0)
    /\ tasks[i].pc = "succeeded" =>
         (tasks[i].responses = 1 /\ tasks[i].cb_calls = 1)
    /\ tasks[i].pc = "failed" =>
         (tasks[i].cb_calls = 1 <=> tasks[i].exc = "ParsingException")
    /\ tasks[i].pc \notin {"callback", "succeeded", "failed"} =>
         (tasks[i].responses = 0 /\ tasks[i].cb_calls = 0)

\* C20 witness: a request that took two client calls had its callback run
\* once.
C20_Witness ==
  \E i \in DOMAIN tasks :
    /\ tasks[i].fetches >= 2
    /\ tasks[i].pc = "succeeded"
    /\ tasks[i].cb_calls = 1

\* C21: when the seeds are empty fetch() ends with the ValueError of
\* _enqueue_start_requests before any task is created or any client called;
\* the worker is not marked started and both queues stay empty.
C21_EmptySeeds ==
  (requests = << >> /\ pc # "start") =>
    /\ pc = "crashed"
    /\ error = "ValueError"
    /\ ~started
    /\ work_queue = << >>
    /\ data_queue = << >>
    /\ tasks = << >>
    /\ \A k \in Keys : stats.fetch_calls[k] = 0 /\ stats.item_calls[k] = 0

\* C21 witness: fetch() was called with no seeds and has ended.
C21_Witness == requests = << >> /\ pc = "crashed" /\ error = "ValueError"

\* C22: as long as nothing was set on the cache object since it was built
\* and loaded, no flush, periodic write or teardown calls sync_flush and the
\* snapshot file is left as it is; a run served from the cache alone writes
\* nothing.
C22_NoWriteWithoutSet ==
  /\ [](~has_written => stats.flushes = 0)
  /\ [][~has_written => disk' = disk]_vars
  /\ []((run >= 2 /\ \A k \in Keys : stats.fetch_calls[k] = 0) =>
          stats.flushes = 0)

\* C22 witness: a second run answered its request from the cache, went
\* through teardown and wrote nothing.
C22_Witness ==
  /\ run = 2
  /\ IterationEnded
  /\ ~has_written
  /\ disk # << >>
  /\ \E k \in Keys : stats.cache_hits[k] >= 1
  /\ stats.flushes = 0

\* C23: for the JSON, the binary and the remote cache alike, a flush persists
\* only when the cache is dirty and leaves it clean, so that nothing is
\* persisted when nothing was set and two flushes with no set between them
\* persist at most once.
C23_FlushOnlyWhenDirty ==
  /\ [][unit'.op \in {"flush_begin", "tick_begin"} => unit.has_written]_vars
  /\ [][unit'.op \in {"flush_done", "tick_done"} => ~unit'.has_written]_vars
  /\ [](unit.kind = "cache" => unit.since_set <= 1)

\* C24: write_periodically flushes and then sets start_time to the current
\* time when now - start_time >= interval; otherwise it neither flushes nor
\* touches start_time.
C24_WritePeriodically ==
  /\ [][unit'.op \in {"tick_begin", "tick_clean", "tick_skipped"} =>
          IF unit.now - unit.start_time >= unit.interval
            THEN \/ /\ unit'.op = "tick_begin"
                    /\ unit'.writer = "tick"
                    /\ variant_writes(unit.variant, unit.has_written)
                 \/ /\ unit'.op = "tick_clean"
                    /\ ~variant_writes(unit.variant, unit.has_written)
                    /\ unit'.start_time = unit.now
                    /\ unit'.store = unit.store
            ELSE /\ unit'.op = "tick_skipped"
                 /\ unit'.start_time = unit.start_time
                 /\ unit'.store = unit.store
                 /\ unit'.writer = ""]_vars
  /\ [][unit'.op = "tick_done" =>
          /\ unit.writer = "tick"
          /\ unit'.store = unit.cache
          /\ unit'.start_time = unit.now]_vars
  /\ [][(unit.kind = "cache" /\ unit'.start_time # unit.start_time) =>
          unit'.op \in {"tick_clean", "tick_done", "tick_failed"}]_vars
C24_Witness ==
  /\ unit.kind = "cache" /\ unit.op = "tick_done"
  /\ unit.interval = 2 /\ unit.start_time = 2 /\ unit.now = 2
  /\ unit.store = unit.cache /\ unit.cache # NoEntries

\* C25: from the moment flush takes the lock until sync_flush has returned,
\* no operation of the cache changes the in-memory map.
C25_MapFrozenWhileFlushing ==
  [][(unit.kind = "cache" /\ Locked /\ unit'.writer = unit.writer) =>
       unit'.cache = unit.cache]_vars

\* C26: a CacheConfig of type remote is accepted only when both save_state
\* and load_state are given; with neither or with only one it is rejected.
C26_RemoteNeedsBothCallbacks ==
  (unit.kind = "config" /\ unit.cache_type = "remote" /\ unit.result # "") =>
    (unit.result = "ok" <=> (unit.save_state /\ unit.load_state))

\* C27: two requests with the same method and URL whose params, form_data and
\* json_data hold the same items, inserted in whatever order, have the same
\* unique_key.
C27_KeyIgnoresInsertionOrder ==
  (/\ unit.kind = "key" /\ unit.key1 # << >>
   /\ unit.r1.method = unit.r2.method /\ unit.r1.url = unit.r2.url
   /\ DictItems(unit.r1.params) = DictItems(unit.r2.params)
   /\ DictItems(unit.r1.form_data) = DictItems(unit.r2.form_data)
   /\ DictItems(unit.r1.json_data) = DictItems(unit.r2.json_data))
  => unit.key1 = unit.key2

\* C28: requests with equal unique_key agree on method, URL, params,
\* form_data and json_data; the same mapping given as form_data and as
\* json_data (or as params) gives different keys.
C28_KeyInjective ==
  (unit.kind = "key" /\ unit.key1 # << >> /\ unit.key1 = unit.key2) =>
    /\ unit.r1.method = unit.r2.method /\ unit.r1.url = unit.r2.url
    /\ DictItems(unit.r1.params) = DictItems(unit.r2.params)
    /\ DictItems(unit.r1.form_data) = DictItems(unit.r2.form_data)
    /\ DictItems(unit.r1.json_data) = DictItems(unit.r2.json_data)

\* C29: in every window of length time_period the number of client calls
\* that start, retries included, is at most max_rate.
C29_RateBound ==
  unit.kind = "limiter" =>
    \A t \in 0..unit.now :
      Cardinality(InWindow(unit.starts, t, unit.time_period)) <= unit.max_rate

\* C30: a request taken into a batch ends in exactly one of succeeded,
\* failed (recorded), skipped as duplicate, skipped as already failed: such a
\* state is never left again, and when fetch() has ended, normally or by an
\* exception, whatever the client raised, every request of the batch is in one.
C30_EveryRequestTerminal ==
  /\ [][\A i \in DOMAIN tasks :
          (i \in DOMAIN tasks' /\ IsRequest(tasks[i].item)
           /\ tasks[i].pc \in {"succeeded", "failed",
                               "skipped_dup", "skipped_failed"}) =>
            tasks'[i].pc = tasks[i].pc]_vars
  /\ [](pc \in {"done", "crashed"} =>
          \A i \in DOMAIN tasks :
            IsRequest(tasks[i].item) =>
              tasks[i].pc \in {"succeeded", "failed",
                               "skipped_dup", "skipped_failed"})

C32_StatusClasses ==
  (unit.kind = "status" /\ unit.called) =>
    LET sc == unit.status_code IN
      /\ (200 <= sc /\ sc <= 299) => unit.raised = ""
      /\ (sc \in {429, 403} \/ (500 <= sc /\ sc <= 599)) =>
           unit.raised = "RetryableException"
      /\ (400 <= sc /\ sc <= 499 /\ sc \notin {429, 403}) =>
           unit.raised = "NonRetryableException"

\* C33: the delay before attempt n >= 2 is
\* max(wait_exp_min, min(wait_exp_max, wait_exp_mul * 2^(n-2))); the delays
\* never decrease and lie in [wait_exp_min, wait_exp_max] when min <= max.
C33_ExponentialWait ==
  unit.kind = "wait" =>
    /\ \A n \in 2..(Len(unit.delays) + 1) :
         LET raw == unit.wait_exp_mul * 2^(n - 2)
             capped == IF raw <= unit.wait_exp_max THEN raw ELSE unit.wait_exp_max
         IN unit.delays[n - 1] =
              IF unit.wait_exp_min >= capped THEN unit.wait_exp_min ELSE capped
    /\ \A j \in 1..(Len(unit.delays) - 1) : unit.delays[j] <= unit.delays[j + 1]
    /\ unit.wait_exp_min <= unit.wait_exp_max =>
         \A j \in DOMAIN unit.delays :
           unit.wait_exp_min <= unit.delays[j] /\ unit.delays[j] <= unit.wait_exp_max
C33_Witness ==
  /\ unit.kind = "wait"
  /\ unit.wait_exp_mul = 1 /\ unit.wait_exp_min = 0 /\ unit.wait_exp_max = 3
  /\ unit.delays = <<1, 2, 3, 3>>

C35_CacheRequest ==
  /\ [][(unit.kind = "cache_request" /\ unit.pc = "call") =>
          LET k == <<unit.request.url, unit.request.params>> IN
          IF k \in DOMAIN unit.cache
            THEN /\ unit'.pc = "returned"
                 /\ unit'.result.text_data = unit.cache[k]
                 /\ unit'.result.url = url_encoded(unit.request)
                 /\ unit'.client_calls = 0
                 /\ unit'.cache = unit.cache
                 /\ unit'.has_written = unit.has_written
            ELSE /\ unit'.pc = "fetching"
                 /\ unit'.client_calls = 1
                 /\ unit'.cache = unit.cache
                 /\ unit'.has_written = unit.has_written]_vars
  /\ [][(unit.kind = "cache_request" /\ unit.pc = "fetching") =>
          LET k == <<unit.request.url, unit.request.params>> IN
          IF unit'.pc = "returned"
            THEN /\ k \in DOMAIN unit'.cache
                 /\ unit'.cache[k] = ResponseValue(unit.request)
                 /\ \A x \in DOMAIN unit.cache :
                      x \in DOMAIN unit'.cache /\ unit'.cache[x] = unit.cache[x]
                 /\ DOMAIN unit'.cache = DOMAIN unit.cache \cup {k}
                 /\ unit'.has_written
                 /\ unit'.result.text_data = ResponseValue(unit.request)
                 /\ unit'.client_calls = 1
            ELSE /\ unit'.pc = "raised"
                 /\ unit'.cache = unit.cache
                 /\ unit'.has_written = unit.has_written
                 /\ unit'.client_calls = 1]_vars
C35_Witness ==
  /\ unit.kind = "cache_request" /\ unit.pc = "returned"
  /\ unit.request.url = "p"
  /\ unit.result = [text_data |-> StaleValue, url |-> <<"p", "?", 1>>]
  /\ unit.client_calls = 0 /\ ~unit.has_written

\* C36: the client object invoked for a request is the one attached to that
\* request, whichever worker handles it and whatever other clients of the
\* same class were used before.
C36_OwnClientInvoked ==
  unit.kind = "clients" =>
    \A j \in DOMAIN unit.calls : unit.calls[j].invoked = unit.calls[j].attached

\* C37: when sync_flush raises inside LocalCache.flush the exception stays
\* inside flush, the lock is free again, the in-memory map and its entries
\* are as before, and set, get and flush are not blocked afterwards.
C37_FlushFailureContained ==
  /\ [][(unit.kind = "cache" /\ unit.writer # ""
         /\ unit'.op \in {"flush_failed", "tick_failed"}) =>
          /\ unit'.propagated = ""
          /\ unit'.writer = ""
          /\ unit'.cache = unit.cache
          /\ unit'.has_written = unit.has_written]_vars
  /\ [](unit.kind = "cache" =>
          /\ unit.propagated = ""
          /\ unit.op \in {"flush_failed", "tick_failed"} => ~Locked)
C37_Witness ==
  /\ unit.kind = "cache" /\ unit.variant = "json" /\ unit.failed
  /\ unit.op = "flush_done" /\ unit.got = 2
  /\ unit.cache = "k" :> 2 /\ unit.store = unit.cache

\* C38: after construction and any item assignments, errors holds key k
\* exactly when the value now stored under k came from a callable that
\* raised.
C38_ErrorsMatchValues ==
  (unit.kind = "data" /\ unit.built) =>
    DOMAIN unit.wrapper.errors = unit.wrapper.raised

\* C39: with at most one add_final_step call, wherever it stands among the
\* add_step calls, run() raises nothing and its result is every added step
\* applied once in the order added; an add_final_step call that raises
\* ValueError leaves the nodes as they were.
C39_PipelineStepsInOrder ==
  /\ []((unit.kind = "pipeline" /\ unit.ran /\ unit.final_calls <= 1) =>
          /\ unit.run.raised = ""
          /\ unit.run.results = unit.added)
  /\ [][(unit.kind = "pipeline" /\ unit'.final_calls > unit.final_calls
         /\ unit.final_calls >= 1) =>
          /\ unit'.last_raised = "ValueError"
          /\ unit'._nodes = unit._nodes]_vars

\* C40: when the request worker has finished, every request it took from
\* requests_queue has exactly one response on responses_queue.
C40_OneResponsePerRequest ==
  (unit.kind = "request_worker" /\ unit.pc = "done") =>
    /\ unit.taken = unit.queued
    /\ \A n \in 1..unit.taken :
         Cardinality({j \in DOMAIN unit.responses_queue :
                        unit.responses_queue[j] = n}) = 1
====
